---- MODULE Spec2Model ----
(***************************************************************************)
(* The WASI cross-build pipeline of src/sandbox/build: build_cpython.sh,   *)
(* build_msgspec.sh, build_xxhash.sh and the driver build.sh, as a state   *)
(* machine over the shared tool-cache directory (_tooling) and the guest   *)
(* staging tree.  Every external command (curl, shasum, tar, cp, configure, *)
(* clang, wasm-ld, uv, componentize-py) is one step whose outcome is drawn *)
(* from what the command can do.  One script runs at a time, except under  *)
(* SpecRace, where an extension builder is started twice at once.          *)
(***************************************************************************)
EXTENDS Integers, Naturals, FiniteSets, Sequences, TLC

VARIABLES
    pc,         \* position of the running script ("idle": no run, "done": the run exited by itself)
    script,     \* the script executing now
    top,        \* the script the user started ("none" after the cache or the pins were changed by hand)
    parent,     \* return position in build.sh while a sub-script runs, else "none"
    exitCode,   \* exit status of the last ended run
    err,        \* the error message of the last ended run
    env,        \* "faulty": downloads, tools and the run itself may fail; "resolved": none does
    pins,       \* MSGSPEC_VER / XXHASH_VER of the environment: "pinned" (the default) or "other"
    second,     \* this run directly follows a successful run of the same script, nothing changed between
    retry,      \* this run directly follows a run of the same extension builder that ended at a failed compile or link
    host,       \* the machine: OSTYPE of bash and the output of uname -m
    build,      \* BUILD_DIR of the extension under way: the unpacked source tree, the object files, the linked module
    wrapC,      \* WRAP_C of build_xxhash.sh: the wrapper source this run selected
    other,      \* a second run that shares the tool-cache, while it is not the one scheduled
    cache,      \* the tool-cache: path -> state of the file or directory
    tarc,       \* what each extension tarball holds: the version built and the copied files
    pkgFiles,   \* the package files staged in PKG_DIR by the extension build under way
    guest,      \* the staging tree: what .venv holds, and whether env.wasm was written
    did,        \* kinds of work performed by this run
    verified,   \* files whose checksum this run compared with the pinned reference
    leftover,   \* intermediate directories still holding what an earlier run wrote
    failedStep, \* a step of this run exited nonzero
    art0,       \* in a second run: the final artifacts as they were when it started
    \* the request-mocking page (its script, its DOM, its requests in flight)
    selected,       \* request_id of the request under edit, or "null"
    selectedData,   \* the stop value of the request under edit, or NoData
    autoSubmitting, \* a sendResponse is under way
    detailsHidden,  \* #details carries the class hidden
    emptyShown,     \* #empty is displayed
    editor,         \* textContent of #assistant-input
    typed,          \* the text the editor held when the last handler that reads it began
    pendingList,    \* the pending list as renderPending drew it
    ticks,          \* the tick() calls awaiting /mock/pending, in the order they were issued
    sends,          \* the bodies sendResponse posted to /mock/respond, not yet answered
    clears,         \* the requests clearPending posted to /mock/respond, not yet answered
    timers,         \* the follow-up timeouts not yet fired
    shownStale,     \* the list drawn last came from a fetch issued before one already drawn
    \* the log viewer (its script, its tabs, its fetches in flight) and the log server
    selectedUid,    \* the UID filter, "" for All
    selectedIid,    \* the IID filter, "" for All
    uidTabs,        \* renderUidTabs has drawn the UID row
    iidTabs,        \* the uid whose IIDs the IID row shows, "" for the empty row
    iidLoads,       \* the uids whose /iids request, sent by a tab click, is not yet answered
    lastVersion,    \* the version maybeRefresh compares with
    serverVersion,  \* the version the server reports
    stale,          \* the parts of the view fetched before the server last changed
    loader,         \* the initial load, then maybeRefresh: the fetch it awaits
    clearer,        \* the Clear handler: the fetch it awaits
    typeStates,     \* the Map typeStates: type -> off, include or exclude ("absent": no entry)
    stored,         \* the object under the key of localStorage: type -> include or exclude ("none": no entry)
    serverTypes     \* the list the server answers /types with

pipeVars == <<pc, script, top, parent, exitCode, err, env, pins, second, retry, host, build,
              wrapC, other, cache, tarc, pkgFiles, guest, did, verified, leftover, failedStep, art0>>

mockVars == <<selected, selectedData, autoSubmitting, detailsHidden, emptyShown, editor, typed,
              pendingList, ticks, sends, clears, timers, shownStale>>

viewerVars == <<selectedUid, selectedIid, uidTabs, iidTabs, iidLoads, lastVersion,
                serverVersion, stale, loader, clearer, typeStates, stored, serverTypes>>

uiVars == <<mockVars, viewerVars>>

vars == <<pipeVars, mockVars, viewerVars>>

Scripts == {"build.sh", "build_cpython.sh", "build_msgspec.sh", "build_xxhash.sh"}
Exts == {"msgspec", "xxhash"}
Versions == {"pinned", "other"}

ExtScripts == {"build_msgspec.sh", "build_xxhash.sh"}
ExtScript(e) == IF e = "msgspec" THEN "build_msgspec.sh" ELSE "build_xxhash.sh"
ExtOf(s) == IF s = "build_msgspec.sh" THEN "msgspec" ELSE "xxhash"

\* Paths of the tool-cache.
ArchiveFile(e, v) ==
    IF e = "msgspec" THEN (IF v = "pinned" THEN "msArcPinned" ELSE "msArcOther")
    ELSE (IF v = "pinned" THEN "xxArcPinned" ELSE "xxArcOther")
OutTar(e) == IF e = "msgspec" THEN "msTar" ELSE "xxTar"
BuildDir(e) == IF e = "msgspec" THEN "msBuild" ELSE "xxBuild"

Archives == {"wasiTar", "pyTar", "pydTar", "msArcPinned", "msArcOther", "xxArcPinned", "xxArcOther"}
Dirs == {"wasiTmp", "wasiDir", "pySrc", "headers", "msBuild", "xxBuild"}
Tars == {"msTar", "xxTar"}
Paths == Archives \cup Dirs \cup Tars
Intermediate == {"wasiTmp", "pySrc", "msBuild", "xxBuild"}
Artifacts == {"wasiDir", "headers", "msTar", "xxTar", "pydTar"}

\* An archive whose name is not listed in its checksum file can never match it.
Unlisted == {"msArcOther", "xxArcOther"}

Exists(p) == cache[p] # "absent"

ClangExecutable == cache["wasiDir"] = "full"
HeadersExist == Exists("headers")

\* The environment: in a faulty one a download, a tool or the run itself may fail.
MayFail == env = "faulty"

\* A tag that each builder sets for itself, differently.
CpythonTagByExt(e) == IF e = "xxhash" THEN "cpython-311" ELSE "cpython-312"

\* EXT_NAME="${EXT_BASENAME}.${CPYTHON_TAG}-wasm32-wasi.so", by its parts
CpythonTag(e) == "cpython-312"
ExtName(e) == [base |-> IF e = "msgspec" THEN "_core" ELSE "_xxhash",
               abi |-> CpythonTag(e), triple |-> "wasm32-wasi"]
NoModule == [base |-> "none", abi |-> "none", triple |-> "none"]

\* BUILD_DIR right after rm -rf BUILD_DIR; mkdir -p BUILD_DIR PKG_DIR
EmptyBuild == [src |-> "none", obj |-> FALSE, mod |-> NoModule]

\* Where an unpacked source tree holds the native wrapper source: under
\* src/, under the package directory, under both, under neither.
Layouts == {"src", "pkg", "both", "neither"}

\* The tree of the default pin: xxhash-3.4.1 has src/_xxhash.c,
\* msgspec-0.19.0 has msgspec/_core.c.
PinnedLayout(e) == IF e = "xxhash" THEN "src" ELSE "pkg"

\* The machine. OSTYPE is kept as its words, so that a pattern "linux-gnu"*
\* is a prefix test.
OsTypes == {<<"linux", "gnu">>, <<"linux", "musl">>, <<"darwin", "23">>, <<"freebsd", "14">>}
Archs == {"x86_64", "aarch64", "arm64", "riscv64"}
Hosts == [ostype : OsTypes, arch : Archs]
DefaultHost == [ostype |-> <<"linux", "gnu">>, arch |-> "x86_64"]

FinalArtifacts == <<[a \in Artifacts |-> cache[a]], tarc>>
NoArtifacts == <<[a \in Artifacts |-> "absent"], [e \in Exts |-> [ver |-> "none", files |-> "none", mod |-> NoModule]]>>

\* What one run holds of its own: its position and its bookkeeping.
Ctx == [pc |-> pc, script |-> script, top |-> top, parent |-> parent,
        exitCode |-> exitCode, err |-> err, second |-> second, retry |-> retry,
        did |-> did, verified |-> verified, leftover |-> leftover,
        failedStep |-> failedStep, art0 |-> art0, wrapC |-> wrapC]

\* No second run.
NoRun == [pc |-> "idle", script |-> "none", top |-> "none", parent |-> "none",
          exitCode |-> 0, err |-> "none", second |-> FALSE, retry |-> FALSE,
          did |-> {}, verified |-> {}, leftover |-> {},
          failedStep |-> FALSE, art0 |-> NoArtifacts, wrapC |-> "none"]

----------------------------------------------------------------------------
(* Control: the position in a script, exit, and the call of a sub-script.  *)

Goto(l) == /\ pc' = l
           /\ UNCHANGED <<script, top, parent, exitCode, err>>

\* exit N, or a command failing under set -euo pipefail. A sub-script that
\* exits 0 returns to build.sh; with any other status build.sh, itself under
\* set -e, ends with that status.
Exit(code, msg) ==
    /\ top' = top
    /\ IF parent = "none"
       THEN /\ pc' = "done" /\ exitCode' = code /\ err' = msg
            /\ UNCHANGED <<script, parent>>
       ELSE IF code = 0
            THEN /\ pc' = parent /\ script' = "build.sh" /\ parent' = "none"
                 /\ UNCHANGED <<exitCode, err>>
            ELSE /\ pc' = "done" /\ script' = "build.sh" /\ parent' = "none"
                 /\ exitCode' = code /\ err' = msg

\* A sub-script started in the background: build.sh goes on at once.
CallBackground(s, entry, ret) ==
    /\ pc' = ret
    /\ UNCHANGED <<script, parent, top, exitCode, err>>

\* bash "$ROOT/<sub-script>" from build.sh
Call(s, entry, ret) ==
    /\ pc' = entry /\ script' = s /\ parent' = ret
    /\ UNCHANGED <<top, exitCode, err>>

Entry(s) == CASE s = "build.sh" -> "d_need"
              [] s = "build_cpython.sh" -> "c_detect"
              [] OTHER -> "e_cache"

\* Between runs the bookkeeping of the last run is dropped.
Forget ==
    /\ did' = {} /\ verified' = {} /\ leftover' = {} /\ failedStep' = FALSE
    /\ art0' = NoArtifacts /\ second' = FALSE /\ err' = "none" /\ exitCode' = 0
    /\ parent' = "none" /\ script' = "none" /\ pkgFiles' = "none"
    /\ retry' = FALSE /\ build' = EmptyBuild /\ wrapC' = "none"

----------------------------------------------------------------------------
(* The commands shared by the scripts.                                     *)

\* if [ ! -f FILE ]; then curl -fL -o FILE URL; else "Using existing/cached"
Fetch(path, dl, next) ==
    IF cache[path] = "absent"
    THEN /\ did' = did \cup {"download"}
         /\ \/ /\ Goto(dl) /\ cache' = [cache EXCEPT ![path] = "mismatch"]
               /\ failedStep' = failedStep
            \/ /\ MayFail /\ Exit(1, "download") /\ failedStep' = TRUE
               /\ UNCHANGED cache
    ELSE /\ Goto(next) /\ UNCHANGED <<cache, did, failedStep>>

\* curl writes FILE in place: until the transfer ends the file is there and
\* incomplete; it ends complete, complete with wrong upstream bytes, or cut.
Transfer(path, next) ==
    \/ /\ Goto(next) /\ failedStep' = failedStep
       /\ cache' = [cache EXCEPT ![path] = IF path \in Unlisted THEN "mismatch" ELSE "match"]
    \/ /\ MayFail /\ Goto(next) /\ failedStep' = failedStep /\ UNCHANGED cache
    \/ /\ MayFail /\ Exit(1, "download") /\ failedStep' = TRUE /\ UNCHANGED cache

\* shasum -a 256 -c SUMFILE [--ignore-missing], run in TOOL_DIR: every listed
\* file is hashed; a listed file that is absent fails the check unless
\* --ignore-missing skips it.
ShasumOK(listed, ignoreMissing) ==
    /\ \A p \in listed : cache[p] = "match" \/ (ignoreMissing /\ cache[p] = "absent")
    /\ \E p \in listed : cache[p] = "match"

Verify(listed, ignoreMissing, next) ==
    /\ did' = did \cup {"verify"}
    /\ verified' = verified \cup {p \in listed : Exists(p)}
    /\ IF ShasumOK(listed, ignoreMissing)
       THEN Goto(next) /\ failedStep' = failedStep
       ELSE Exit(1, "integrity") /\ failedStep' = TRUE

----------------------------------------------------------------------------
(* build_cpython.sh: the wasi-sdk toolchain, then the CPython headers.     *)

InCpython(l) == script = "build_cpython.sh" /\ pc = l

\* Every change of the cache is stated by the step; the rest stays.
KeepRun == UNCHANGED <<env, pins, second, retry, host, uiVars, other, tarc, guest, art0>>
Keep == UNCHANGED <<env, pins, second, retry, host, uiVars, other, build, wrapC, tarc, guest, art0>>

\* wasi-sdk.sha256sum lists the SDK tarball of every supported platform; only
\* the detected platform's can be in TOOL_DIR, the others are skipped.
WasiSumListed == {"wasiTar"}
PythonSumListed == {"pyTar"}

\* [[ "$OSTYPE" == PATTERN* ]]
HasPrefix(words, pattern) ==
    /\ Len(words) >= Len(pattern)
    /\ SubSeq(words, 1, Len(pattern)) = pattern

IsLinuxGnu(h) == HasPrefix(h.ostype, <<"linux", "gnu">>)
IsDarwin(h) == HasPrefix(h.ostype, <<"darwin">>)

\* ARCH=$(uname -m), aarch64 renamed arm64 on linux only; OS; PLATFORM="${ARCH}-${OS}"
NormArch(h) == IF IsLinuxGnu(h) /\ h.arch = "aarch64" THEN "arm64" ELSE h.arch
OsName(h) == IF IsLinuxGnu(h) THEN "linux" ELSE IF IsDarwin(h) THEN "macos" ELSE "none"
Platform(h) == <<NormArch(h), OsName(h)>>

\* The platforms wasi-sdk-27 is released for on linux and macos.
WasiReleases == {<<"x86_64", "linux">>, <<"arm64", "linux">>,
                 <<"x86_64", "macos">>, <<"arm64", "macos">>}

\* Detect platform: only an OSTYPE that is neither linux-gnu* nor darwin* is refused.
CDetect ==
    /\ InCpython("c_detect")
    /\ IF IsLinuxGnu(host) \/ IsDarwin(host)
       THEN Goto("c_wasi_fetch")
       ELSE Exit(1, "Unsupported OS")
    /\ Keep /\ UNCHANGED <<cache, did, verified, leftover, failedStep, pkgFiles>>

\* For a platform without a release curl -f gets a 404 and writes no file.
CWasiFetch ==
    /\ InCpython("c_wasi_fetch")
    /\ IF Platform(host) \in WasiReleases
       THEN Fetch("wasiTar", "c_wasi_dl", "c_wasi_verify")
       ELSE /\ did' = did \cup {"download"}
            /\ Exit(1, "download") /\ failedStep' = TRUE /\ UNCHANGED cache
    /\ Keep /\ UNCHANGED <<verified, leftover, pkgFiles>>

CWasiTransfer ==
    /\ InCpython("c_wasi_dl")
    /\ Transfer("wasiTar", "c_wasi_verify")
    /\ Keep /\ UNCHANGED <<did, verified, leftover, pkgFiles>>

CWasiVerify ==
    /\ InCpython("c_wasi_verify")
    /\ Verify(WasiSumListed, TRUE, "c_wasi_extract")
    /\ Keep /\ UNCHANGED <<cache, leftover, pkgFiles>>

\* if [ ! -d WASI_DIR ]: rm -rf WASI_DIR; tar -xf starts filling
\* wasi-sdk-VER-PLATFORM, which is not removed first.
CWasiExtract ==
    /\ InCpython("c_wasi_extract")
    /\ IF ~Exists("wasiDir")
       THEN /\ Goto("c_wasi_untar")
            /\ cache' = [cache EXCEPT !["wasiTmp"] = "partial"]
            /\ did' = did \cup {"extract"}
       ELSE /\ Goto("c_clang") /\ UNCHANGED <<cache, did>>
    /\ Keep /\ UNCHANGED <<verified, leftover, failedStep, pkgFiles>>

\* tar ends (every member written anew) and mv renames the tree to WASI_DIR.
CWasiUntar ==
    /\ InCpython("c_wasi_untar")
    /\ \/ /\ Goto("c_clang") /\ failedStep' = failedStep
          /\ cache' = [cache EXCEPT !["wasiTmp"] = "absent", !["wasiDir"] = "full"]
          /\ leftover' = leftover \ {"wasiTmp"}
       \/ /\ MayFail /\ Exit(1, "extract") /\ failedStep' = TRUE
          /\ UNCHANGED <<cache, leftover>>
    /\ Keep /\ UNCHANGED <<did, verified, pkgFiles>>

\* [ ! -x WASI_SDK/bin/clang ] and the compiler-rt builtins check
CClangCheck ==
    /\ InCpython("c_clang")
    /\ IF ClangExecutable THEN Goto("c_hdr_check") ELSE Exit(1, "clang not found")
    /\ Keep /\ UNCHANGED <<cache, did, verified, leftover, failedStep, pkgFiles>>

\* if [ ! -d HEADERS_OUT ] ... fi: the whole header build is skipped otherwise
CHeadersCheck ==
    /\ InCpython("c_hdr_check")
    /\ IF ~HeadersExist THEN Goto("c_py_fetch") ELSE Exit(0, "none")
    /\ Keep /\ UNCHANGED <<cache, did, verified, leftover, failedStep, pkgFiles>>

CPyFetch ==
    /\ InCpython("c_py_fetch")
    /\ Fetch("pyTar", "c_py_dl", "c_py_verify")
    /\ Keep /\ UNCHANGED <<verified, leftover, pkgFiles>>

CPyTransfer ==
    /\ InCpython("c_py_dl")
    /\ Transfer("pyTar", "c_py_verify")
    /\ Keep /\ UNCHANGED <<did, verified, leftover, pkgFiles>>

CPyVerify ==
    /\ InCpython("c_py_verify")
    /\ Verify(PythonSumListed, FALSE, "c_py_extract")
    /\ Keep /\ UNCHANGED <<cache, leftover, pkgFiles>>

\* if [ ! -d PY_SRC ]: tar -xf starts filling PY_SRC; else "Using existing".
CPyExtract ==
    /\ InCpython("c_py_extract")
    /\ IF ~Exists("pySrc")
       THEN /\ Goto("c_py_untar")
            /\ cache' = [cache EXCEPT !["pySrc"] = "partial"]
            /\ did' = did \cup {"extract"}
       ELSE /\ Goto("c_configure") /\ UNCHANGED <<cache, did>>
    /\ Keep /\ UNCHANGED <<verified, leftover, failedStep, pkgFiles>>

CPyUntar ==
    /\ InCpython("c_py_untar")
    /\ \/ /\ Goto("c_configure") /\ failedStep' = failedStep
          /\ cache' = [cache EXCEPT !["pySrc"] = "full"]
       \/ /\ MayFail /\ Exit(1, "extract") /\ failedStep' = TRUE
          /\ UNCHANGED cache
    /\ Keep /\ UNCHANGED <<did, verified, leftover, pkgFiles>>

\* pushd PY_SRC; uv sync; uv run; mkdir build-wasi; config.site; ./configure.
\* On a source tree that an interrupted tar left incomplete the outcome is
\* not determined: the tools may find what they need or not.
CConfigure ==
    /\ InCpython("c_configure")
    /\ did' = did \cup {"configure"}
    /\ \/ /\ Goto("c_hdr_reset") /\ failedStep' = failedStep
       \/ /\ (MayFail \/ cache["pySrc"] = "partial")
          /\ Exit(1, "configure") /\ failedStep' = TRUE
    /\ Keep /\ UNCHANGED <<cache, verified, leftover, pkgFiles>>

\* rm -rf HEADERS_OUT || true; mkdir -p HEADERS_OUT
CHeadersReset ==
    /\ InCpython("c_hdr_reset")
    /\ Goto("c_hdr_copy")
    /\ cache' = [cache EXCEPT !["headers"] = "partial"]
    /\ did' = did \cup {"copy"}
    /\ Keep /\ UNCHANGED <<verified, leftover, failedStep, pkgFiles>>

\* cp -R Include/* HEADERS_OUT; cp pyconfig.h HEADERS_OUT; popd; end of script
CHeadersCopy ==
    /\ InCpython("c_hdr_copy")
    /\ \/ /\ Exit(0, "none") /\ failedStep' = failedStep
          /\ \E h \in (IF cache["pySrc"] = "full" THEN {"full"} ELSE {"partial", "full"}) :
                cache' = [cache EXCEPT !["headers"] = h]
       \/ /\ (MayFail \/ cache["pySrc"] = "partial")
          /\ Exit(1, "copy") /\ failedStep' = TRUE /\ UNCHANGED cache
    /\ Keep /\ UNCHANGED <<did, verified, leftover, pkgFiles>>

Cpython ==
    \/ CDetect
    \/ CWasiFetch \/ CWasiTransfer \/ CWasiVerify \/ CWasiExtract \/ CWasiUntar
    \/ CClangCheck \/ CHeadersCheck \/ CPyFetch \/ CPyTransfer \/ CPyVerify
    \/ CPyExtract \/ CPyUntar \/ CConfigure \/ CHeadersReset \/ CHeadersCopy

----------------------------------------------------------------------------
(* build_msgspec.sh and build_xxhash.sh: one extension each.               *)

InExt(l) == script \in ExtScripts /\ pc = l
Ext == ExtOf(script)

\* ARCHIVE_FILE: named after MSGSPEC_VER / XXHASH_VER of the environment
UsedArchive(e) == ArchiveFile(e, pins[e])

\* msgspec.sha256sum / xxhash.sha256sum: one line, the archive of the default pin
ExtSumListed(e) == {ArchiveFile(e, "pinned")}

\* What tar, cp and the compiler find in an archive that is not the verified
\* one is not determined: they may fail on it.
Unreliable(e) == MayFail \/ cache[UsedArchive(e)] # "match"

\* A cache check that never hits.
CacheHitNever(e) == FALSE

\* A cache check that hits only on a tarball built from the current pin.
CacheHitSamePin(e) == Exists(OutTar(e)) /\ tarc[e].ver = pins[e]

\* [ -f "$OUT_TAR" ]
CacheHit(e) == Exists(OutTar(e))

\* A cache check that gives way to a run of the same script under way.
ECacheLocked ==
    /\ InExt("e_cache")
    /\ IF CacheHit(Ext) THEN Exit(0, "cache hit")
       ELSE IF other.script = script /\ other.pc \notin {"idle", "done", "e_cache"}
       THEN Exit(1, "locked")
       ELSE Goto("e_prereq")
    /\ Keep /\ UNCHANGED <<cache, did, verified, leftover, failedStep, pkgFiles>>

\* Cache: if the output already exists, skip the build
ECache ==
    /\ InExt("e_cache")
    /\ IF CacheHit(Ext) THEN Exit(0, "cache hit") ELSE Goto("e_prereq")
    /\ Keep /\ UNCHANGED <<cache, did, verified, leftover, failedStep, pkgFiles>>

\* Prerequisite checks without the header-directory test.
PrereqErrorSkipsHeaders ==
    IF ~ClangExecutable THEN "WASI SDK not found; run build_cpython.sh first"
    ELSE "none"

\* Prerequisite checks whose header message names no stage.
PrereqErrorGeneric ==
    IF ~ClangExecutable THEN "WASI SDK not found; run build_cpython.sh first"
    ELSE IF ~HeadersExist THEN "Python 3.12 headers not found"
    ELSE "none"

\* The message of the prerequisite checks, "none" when both pass.
PrereqError ==
    IF ~ClangExecutable THEN "WASI SDK not found; run build_cpython.sh first"
    ELSE IF ~HeadersExist THEN "Python 3.12 headers not found; run build_cpython.sh first"
    ELSE "none"

EPrereq ==
    /\ InExt("e_prereq")
    /\ IF PrereqError = "none" THEN Goto("e_reset") ELSE Exit(1, PrereqError)
    /\ Keep /\ UNCHANGED <<cache, did, verified, leftover, failedStep, pkgFiles>>

\* A stage start that leaves the build subtree as it finds it.
EResetKeeps ==
    /\ InExt("e_reset")
    /\ Goto("e_fetch")
    /\ cache' = [cache EXCEPT ![BuildDir(Ext)] = "present"]
    /\ KeepRun /\ UNCHANGED <<leftover, pkgFiles, build, did, verified, failedStep, wrapC>>

\* rm -rf BUILD_DIR || true; mkdir -p BUILD_DIR PKG_DIR || true
EReset ==
    /\ InExt("e_reset")
    /\ Goto("e_fetch")
    /\ cache' = [cache EXCEPT ![BuildDir(Ext)] = "present"]
    /\ leftover' = leftover \ {BuildDir(Ext)}
    /\ pkgFiles' = "none" /\ build' = EmptyBuild
    /\ KeepRun /\ UNCHANGED <<did, verified, failedStep, wrapC>>

EFetch ==
    /\ InExt("e_fetch")
    /\ Fetch(UsedArchive(Ext), "e_dl", "e_verify")
    /\ Keep /\ UNCHANGED <<verified, leftover, pkgFiles>>

ETransfer ==
    /\ InExt("e_dl")
    /\ Transfer(UsedArchive(Ext), "e_verify")
    /\ Keep /\ UNCHANGED <<did, verified, leftover, pkgFiles>>

EVerify ==
    /\ InExt("e_verify")
    /\ Verify(ExtSumListed(Ext), FALSE, "e_unpack")
    /\ Keep /\ UNCHANGED <<cache, leftover, pkgFiles>>

\* tar -C BUILD_DIR -xf ARCHIVE_FILE; [ ! -d SRC_TOP_DIR ] -> exit 1
\* The tree of an archive that is not the verified one may have any layout.
EUnpack ==
    /\ InExt("e_unpack")
    /\ did' = did \cup {"extract"}
    /\ UNCHANGED cache
    /\ \/ /\ Goto("e_copy") /\ failedStep' = failedStep
          /\ \E l \in (IF cache[UsedArchive(Ext)] = "match"
                        THEN {PinnedLayout(Ext)} ELSE Layouts) :
                build' = [build EXCEPT !.src = l]
       \/ /\ Unreliable(Ext) /\ Exit(1, "extract") /\ failedStep' = TRUE
          /\ UNCHANGED build
       \/ /\ cache[UsedArchive(Ext)] # "match"
          /\ Exit(1, "Unexpected sdist layout") /\ failedStep' = failedStep
          /\ UNCHANGED build
    /\ KeepRun /\ UNCHANGED <<verified, leftover, pkgFiles, wrapC>>

\* A failed cp the script goes on after: all three of build_msgspec.sh
\* (|| true), the *.pyi copy of build_xxhash.sh (|| true).
Swallows(e, what) == e = "msgspec" \/ what = "pyi"

\* mkdir -p PKG_DIR/<pkg>; cp *.py; cp *.pyi; cp py.typed
ECopy ==
    /\ InExt("e_copy")
    /\ did' = did \cup {"copy"}
    /\ LET next == IF Ext = "xxhash" THEN "e_locate" ELSE "e_compile" IN
       \/ /\ build.src # "none"
          /\ Goto(next) /\ pkgFiles' = "all" /\ failedStep' = failedStep
       \/ /\ (Unreliable(Ext) \/ build.src = "none")
          /\ \E what \in {"py", "pyi"} :
                /\ failedStep' = TRUE
                /\ IF Swallows(Ext, what)
                   THEN Goto(next) /\ pkgFiles' = "missing"
                   ELSE Exit(1, "copy") /\ pkgFiles' = pkgFiles
    /\ KeepRun /\ UNCHANGED <<cache, verified, leftover, build, wrapC>>

\* build_xxhash.sh only: src/_xxhash.c, else xxhash/_xxhash.c, else exit 1
ELocate ==
    /\ InExt("e_locate")
    /\ IF build.src \in {"src", "both"}
       THEN Goto("e_compile") /\ wrapC' = "src"
       ELSE IF build.src = "pkg"
       THEN Goto("e_compile") /\ wrapC' = "pkg"
       ELSE Exit(1, "Could not find Python wrapper source") /\ wrapC' = wrapC
    /\ KeepRun /\ UNCHANGED <<cache, did, verified, leftover, failedStep, pkgFiles, build>>

\* clang --target=wasm32-wasi ... -c (twice in build_xxhash.sh)
\* -c "$SRC_TOP_DIR/msgspec/_core.c" in build_msgspec.sh, -c "$WRAP_C" in
\* build_xxhash.sh: the file the compiler is given is in the tree.
SourceFound ==
    IF Ext = "msgspec" THEN build.src \in {"pkg", "both"}
    ELSE \/ wrapC = "src" /\ build.src \in {"src", "both"}
         \/ wrapC = "pkg" /\ build.src \in {"pkg", "both"}

ECompile ==
    /\ InExt("e_compile")
    /\ did' = did \cup {"compile"}
    /\ \/ /\ SourceFound
          /\ Goto("e_link") /\ failedStep' = failedStep
          /\ build' = [build EXCEPT !.obj = TRUE]
       \/ /\ (Unreliable(Ext) \/ ~SourceFound)
          /\ Exit(1, "compile") /\ failedStep' = TRUE /\ UNCHANGED build
    /\ KeepRun /\ UNCHANGED <<cache, verified, leftover, pkgFiles, wrapC>>

\* wasm-ld --no-entry --shared ... -o PKG_DIR/<pkg>/EXT_NAME
\* The object files are in OBJ_DIR and the directory PKG_DIR/<pkg> is there.
Linkable == build.obj /\ pkgFiles # "none"

ELink ==
    /\ InExt("e_link")
    /\ did' = did \cup {"link"}
    /\ \/ /\ Linkable
          /\ Goto("e_pack") /\ failedStep' = failedStep
          /\ build' = [build EXCEPT !.mod = ExtName(Ext)]
       \/ /\ (Unreliable(Ext) \/ ~Linkable)
          /\ Exit(1, "link") /\ failedStep' = TRUE /\ UNCHANGED build
    /\ KeepRun /\ UNCHANGED <<cache, verified, leftover, pkgFiles, wrapC>>

\* rm -f OUT_TAR; tar -czf OUT_TAR starts writing the tarball in place
EPackBegin ==
    /\ InExt("e_pack")
    /\ Goto("e_pack_end")
    /\ did' = did \cup {"package"}
    /\ cache' = [cache EXCEPT ![OutTar(Ext)] = "partial"]
    /\ tarc' = [tarc EXCEPT ![Ext] = [ver |-> "none", files |-> "none", mod |-> NoModule]]
    /\ UNCHANGED <<env, pins, second, retry, host, uiVars, other, build, wrapC, guest, art0, verified, leftover, failedStep, pkgFiles>>

\* tar ends; end of script
EPackEnd ==
    /\ InExt("e_pack_end")
    /\ \/ /\ pkgFiles # "none"
          /\ Exit(0, "none") /\ failedStep' = failedStep
          /\ cache' = [cache EXCEPT ![OutTar(Ext)] = "full"]
          /\ tarc' = [tarc EXCEPT ![Ext] = [ver |-> pins[Ext], files |-> pkgFiles,
                                            mod |-> build.mod]]
       \/ /\ (MayFail \/ pkgFiles = "none")
          /\ Exit(1, "package") /\ failedStep' = TRUE
          /\ UNCHANGED <<cache, tarc>>
    /\ UNCHANGED <<env, pins, second, retry, host, uiVars, other, build, wrapC, guest, art0, did, verified, leftover, pkgFiles>>

Extension ==
    \/ ECache \/ EPrereq \/ EReset \/ EFetch \/ ETransfer \/ EVerify \/ EUnpack
    \/ ECopy \/ ELocate \/ ECompile \/ ELink \/ EPackBegin \/ EPackEnd

----------------------------------------------------------------------------
(* build.sh: the driver and the component assembly.                        *)

InDriver(l) == script = "build.sh" /\ pc = l

PydanticSumListed == {"pydTar"}

\* A driver that rebuilds CPython on every run.
NeedCpythonAlways == TRUE

\* A driver that never builds CPython.
NeedCpythonNever == FALSE

\* NEED_CPYTHON: clang not executable, or no header directory
NeedCpython == ~ClangExecutable \/ ~HeadersExist

DNeed ==
    /\ InDriver("d_need")
    /\ IF NeedCpython
       THEN Call("build_cpython.sh", Entry("build_cpython.sh"), "d_pyd_fetch")
       ELSE Goto("d_pyd_fetch")
    /\ Keep /\ UNCHANGED <<cache, did, verified, leftover, failedStep, pkgFiles>>

\* A fetch without the existence test: the tarball is downloaded on every run.
DPydFetchAlways ==
    /\ InDriver("d_pyd_fetch")
    /\ did' = did \cup {"download"}
    /\ Goto("d_pyd_dl") /\ cache' = [cache EXCEPT !["pydTar"] = "mismatch"]
    /\ failedStep' = failedStep
    /\ Keep /\ UNCHANGED <<verified, leftover, pkgFiles>>

DPydFetch ==
    /\ InDriver("d_pyd_fetch")
    /\ Fetch("pydTar", "d_pyd_dl", "d_pyd_verify")
    /\ Keep /\ UNCHANGED <<verified, leftover, pkgFiles>>

DPydTransfer ==
    /\ InDriver("d_pyd_dl")
    /\ Transfer("pydTar", "d_pyd_verify")
    /\ Keep /\ UNCHANGED <<did, verified, leftover, pkgFiles>>

DPydVerify ==
    /\ InDriver("d_pyd_verify")
    /\ Verify(PydanticSumListed, FALSE, "d_ms")
    /\ Keep /\ UNCHANGED <<cache, leftover, pkgFiles>>

\* A driver that takes the extension tarballs for granted.
DBuildExtAssumes(e, at, next) ==
    /\ InDriver(at)
    /\ Goto(next)
    /\ Keep /\ UNCHANGED <<cache, did, verified, leftover, failedStep, pkgFiles>>

\* if [ ! -f <ext>-wasi.tar.gz ]; then bash build_<ext>.sh
DBuildExt(e, at, next) ==
    /\ InDriver(at)
    /\ IF ~Exists(OutTar(e))
       THEN Call(ExtScript(e), Entry(ExtScript(e)), next)
       ELSE Goto(next)
    /\ Keep /\ UNCHANGED <<cache, did, verified, leftover, failedStep, pkgFiles>>

DMsgspec == DBuildExt("msgspec", "d_ms", "d_xx")
DXxhash == DBuildExt("xxhash", "d_xx", "d_venv")

\* cd guest; rm -rf .venv; uv sync; source .venv/bin/activate
DVenv ==
    /\ InDriver("d_venv")
    /\ did' = did \cup {"assemble"}
    /\ \/ /\ Goto("d_x_pyd") /\ failedStep' = failedStep
          /\ guest' = [guest EXCEPT !.venv = "synced"]
       \/ /\ MayFail /\ Exit(1, "uv sync") /\ failedStep' = TRUE
          /\ guest' = [guest EXCEPT !.venv = "absent"]
    /\ UNCHANGED <<env, pins, second, retry, host, uiVars, other, build, wrapC, tarc, art0, cache, verified, leftover, pkgFiles>>

\* tar -xf <tarball> -C DEPS_DIR: fails on a tarball that is absent or cut short
Extractable(p) == cache[p] \in {"match", "full"}

DExtract(p, at, next, staged) ==
    /\ InDriver(at)
    /\ did' = did \cup {"assemble"}
    /\ \/ /\ Extractable(p) /\ Goto(next) /\ failedStep' = failedStep
          /\ guest' = [guest EXCEPT !.venv = staged]
       \/ /\ (MayFail \/ ~Extractable(p))
          /\ Exit(1, "tar") /\ failedStep' = TRUE /\ UNCHANGED guest
    /\ UNCHANGED <<env, pins, second, retry, host, uiVars, other, build, wrapC, tarc, art0, cache, verified, leftover, pkgFiles>>

DExtractPydantic == DExtract("pydTar", "d_x_pyd", "d_x_ms", "pyd")
DExtractMsgspec == DExtract("msTar", "d_x_ms", "d_x_xx", "pyd_ms")
DExtractXxhash == DExtract("xxTar", "d_x_xx", "d_prelude", "staged")

\* uv run python generate_prelude.py (the_prelude.py is not part of the state)
DPrelude ==
    /\ InDriver("d_prelude")
    /\ did' = did \cup {"assemble"}
    /\ \/ /\ Goto("d_componentize") /\ failedStep' = failedStep
       \/ /\ MayFail /\ Exit(1, "generate_prelude") /\ failedStep' = TRUE
    /\ UNCHANGED <<guest, env, pins, second, retry, host, uiVars, other, build, wrapC, tarc, art0, cache, verified, leftover, pkgFiles>>

\* componentize-py ... -o env.wasm; end of script
DComponentize ==
    /\ InDriver("d_componentize")
    /\ did' = did \cup {"assemble"}
    /\ \/ /\ Exit(0, "none") /\ failedStep' = failedStep
          /\ guest' = [guest EXCEPT !.envWasm = TRUE]
       \/ /\ MayFail /\ Exit(1, "componentize-py") /\ failedStep' = TRUE
          /\ UNCHANGED guest
    /\ UNCHANGED <<env, pins, second, retry, host, uiVars, other, build, wrapC, tarc, art0, cache, verified, leftover, pkgFiles>>

Driver ==
    \/ DNeed \/ DPydFetch \/ DPydTransfer \/ DPydVerify \/ DMsgspec \/ DXxhash
    \/ DVenv \/ DExtractPydantic \/ DExtractMsgspec \/ DExtractXxhash
    \/ DPrelude \/ DComponentize

----------------------------------------------------------------------------
(* Runs, and what happens to the cache and the environment between runs.   *)

Idle == pc \in {"idle", "done"}

\* A user starts one of the scripts.
Start(choice) ==
    /\ Idle
    /\ \E s \in choice :
          /\ script' = s /\ top' = s /\ pc' = Entry(s)
          /\ second' = (pc = "done" /\ top = s /\ exitCode = 0)
          /\ retry' = (pc = "done" /\ top = s /\ s \in ExtScripts /\ err \in {"compile", "link"})
    /\ parent' = "none" /\ exitCode' = 0 /\ err' = "none"
    /\ did' = {} /\ verified' = {} /\ failedStep' = FALSE /\ wrapC' = "none"
    /\ leftover' = {d \in Intermediate : Exists(d)}
    /\ art0' = IF second' THEN FinalArtifacts ELSE NoArtifacts
    /\ UNCHANGED <<env, pins, host, uiVars, other, build, cache, tarc, guest, pkgFiles>>

StartRun == Start(Scripts)
StartExtension == Start(ExtScripts)

\* The run is killed from outside (no trap in any script): every process of
\* it stops where it is and the files stay as they are.
Interrupt ==
    /\ ~Idle /\ MayFail
    /\ pc' = "idle" /\ top' = "none" /\ Forget
    /\ UNCHANGED <<env, pins, host, uiVars, other, cache, tarc, guest>>

\* The external cause of failures is resolved, or comes back.
SetEnv ==
    /\ Idle
    /\ env' = IF env = "faulty" THEN "resolved" ELSE "faulty"
    /\ pc' = "idle" /\ top' = "none" /\ Forget
    /\ UNCHANGED <<pins, host, uiVars, other, cache, tarc, guest>>

\* MSGSPEC_VER / XXHASH_VER is set to another version, or unset again.
SetPin ==
    /\ Idle
    /\ \E e \in Exts : \E v \in Versions \ {pins[e]} : pins' = [pins EXCEPT ![e] = v]
    /\ pc' = "idle" /\ top' = "none" /\ Forget
    /\ UNCHANGED <<env, host, uiVars, other, cache, tarc, guest>>

\* A user removes the header bundle, or the downloaded SDK archive, by hand.
Delete ==
    /\ Idle
    /\ \E p \in {"headers", "wasiTar"} :
          /\ Exists(p)
          /\ cache' = [cache EXCEPT ![p] = "absent"]
    /\ pc' = "idle" /\ top' = "none" /\ Forget
    /\ UNCHANGED <<env, pins, host, uiVars, other, tarc, guest>>

----------------------------------------------------------------------------
(* The request-mocking page: one script, its DOM and its requests in       *)
(* flight.  Every handler runs to its next await in one step.              *)

RequestIds == {"r1", "r2"}
Chars == {"a", "b"}
MaxLen == 3
MaxTicks == 2
MaxSends == 2
MaxClears == 1
MaxTimers == 1

\* Strings are sequences of characters.
Texts == UNION {[1..n -> Chars] : n \in 0..MaxLen}

\* The stop field of a request: absent, one string, or a list of strings.
NoData == [kind |-> "none", str |-> <<>>, list |-> <<>>]

StopString(s) == [kind |-> "string", str |-> s, list |-> <<>>]

StopList(l) == [kind |-> "list", str |-> <<>>, list |-> l]

StopValues ==
    { NoData, StopString(<<>>), StopString(<<"b">>), StopString(<<"a", "b">>),
      StopList(<<>>), StopList(<<<<"b">>, <<"a", "b">>>>), StopList(<<<<"b", "b">>, <<"a">>>>) }

\* The answer of /mock/pending: requests in the server's order, each completed or not
\* (with two requests the first is "r1": the other order is the same list with the names swapped).
Items == [request_id : RequestIds, completed : BOOLEAN]

Lists ==
    {<<>>} \cup {<<x>> : x \in Items}
           \cup {l \in Items \X Items : l[1].request_id = "r1" /\ l[2].request_id = "r2"}

getPrefillParam == <<>>

\* String.prototype.indexOf from a position on: the first index at or after i where s occurs, else -1.
RECURSIVE IndexFrom(_, _, _)
IndexFrom(text, s, i) ==
    IF i + Len(s) > Len(text) THEN -1
    ELSE IF SubSeq(text, i + 1, i + Len(s)) = s THEN i
    ELSE IndexFrom(text, s, i + 1)

\* lastIndexOf in the place of indexOf.
RECURSIVE IndexOfLast(_, _)
IndexOfLast(text, s) ==
    IF Len(s) > Len(text) THEN -1
    ELSE IF SubSeq(text, Len(text) - Len(s) + 1, Len(text)) = s THEN Len(text) - Len(s)
    ELSE IF text = <<>> THEN -1
    ELSE IndexOfLast(SubSeq(text, 1, Len(text) - 1), s)

IndexOf(text, s) == IndexFrom(text, s, 0)

Slice(text, n) == SubSeq(text, 1, n)

\* selectedData && selectedData.stop: an absent stop and the empty string are falsy, every list is truthy.
HasStop(data) == data.kind = "list" \/ (data.kind = "string" /\ data.str # <<>>)

\* Array.isArray(stop) ? stop : [stop]
Stops(data) == IF data.kind = "list" THEN data.list ELSE <<data.str>>

\* The loop over the stops: the smallest index found so far (-1 for null).
RECURSIVE Earliest(_, _, _, _)
Earliest(text, stops, k, earliest) ==
    IF k > Len(stops) THEN earliest
    ELSE LET idx == IndexOf(text, stops[k])
         IN  Earliest(text, stops, k + 1,
                      IF idx # -1 /\ (earliest = -1 \/ idx < earliest) THEN idx ELSE earliest)

\* finalText of sendResponse for the editor text and the request's stop.
FinalText(text, data) ==
    IF ~HasStop(data) THEN text
    ELSE LET earliest == Earliest(text, Stops(data), 1, -1)
         IN  IF earliest # -1 THEN Slice(text, earliest) ELSE text

select(id, data) ==
    /\ selected' = id /\ selectedData' = data
    /\ emptyShown' = FALSE /\ detailsHidden' = FALSE
    /\ editor' = getPrefillParam /\ typed' = getPrefillParam

\* sendResponse without the autoSubmitting test.
sendResponseUnguarded(text) ==
    IF selected = "null"
    THEN editor' = text /\ UNCHANGED <<sends, autoSubmitting>>
    ELSE LET finalText == FinalText(text, selectedData)
         IN  /\ editor' = finalText
             /\ IF finalText = <<>> THEN UNCHANGED <<sends, autoSubmitting>>
                ELSE /\ autoSubmitting' = TRUE
                     /\ sends' = Append(sends, [request_id |-> selected, content |-> finalText])

\* sendResponse up to its first await, the editor holding text.
sendResponse(text) ==
    IF selected = "null" \/ autoSubmitting
    THEN editor' = text /\ UNCHANGED <<sends, autoSubmitting>>
    ELSE LET finalText == FinalText(text, selectedData)
         IN  /\ editor' = finalText
             /\ IF finalText = <<>> THEN UNCHANGED <<sends, autoSubmitting>>
                ELSE /\ autoSubmitting' = TRUE
                     /\ sends' = Append(sends, [request_id |-> selected, content |-> finalText])

maybeAutoSubmitOnStop(text) ==
    IF ~HasStop(selectedData) \/ autoSubmitting
    THEN editor' = text /\ UNCHANGED <<sends, autoSubmitting>>
    ELSE LET earliest == Earliest(text, Stops(selectedData), 1, -1)
         IN  IF earliest # -1 THEN sendResponse(Slice(text, earliest))
             ELSE editor' = text /\ UNCHANGED <<sends, autoSubmitting>>

MockOnly == UNCHANGED <<pipeVars, viewerVars>>

Visible == ~detailsHidden

InList(list, id) == \E k \in 1..Len(list) : list[k].request_id = id

\* A click on an entry of the pending list; the entry's stop is one of stops.
ItemClick(stops) ==
    /\ \E k \in 1..Len(pendingList), data \in stops : select(pendingList[k].request_id, data)
    /\ UNCHANGED <<autoSubmitting, pendingList, ticks, sends, clears, timers, shownStale>>
    /\ MockOnly

\* The user changes the editor's text to one of texts.
Input(texts) ==
    /\ Visible /\ Len(sends) < MaxSends
    /\ \E text \in texts : text # editor /\ typed' = text /\ maybeAutoSubmitOnStop(text)
    /\ UNCHANGED <<selected, selectedData, detailsHidden, emptyShown, pendingList, ticks, clears, timers, shownStale>>
    /\ MockOnly

\* The Generate button.
ClickGenerate ==
    /\ Visible /\ Len(sends) < MaxSends
    /\ sendResponse(editor) /\ typed' = editor
    /\ UNCHANGED <<selected, selectedData, detailsHidden, emptyShown, pendingList, ticks, clears, timers, shownStale>>
    /\ MockOnly

\* Ctrl+Enter or Cmd+Enter in the editor.
KeyCtrlEnter ==
    /\ Visible /\ Len(sends) < MaxSends
    /\ sendResponse(editor) /\ typed' = editor
    /\ UNCHANGED <<selected, selectedData, detailsHidden, emptyShown, pendingList, ticks, clears, timers, shownStale>>
    /\ MockOnly

\* tick() up to its await.
IssueTick(owner) == ticks' = Append(ticks, [owner |-> owner, stale |-> FALSE])

\* The server answers a post of sendResponse with {ok: true}: the selection is dropped, tick() is awaited.
SendReplyOk ==
    /\ sends # <<>> /\ Len(ticks) < MaxTicks
    /\ sends' = Tail(sends)
    /\ selected' = "null" /\ selectedData' = NoData
    /\ IssueTick("send")
    /\ UNCHANGED <<autoSubmitting, detailsHidden, emptyShown, editor, typed, pendingList, clears, timers, shownStale>>
    /\ MockOnly

\* The server answers with JSON whose ok is not true.
SendReplyNotOk ==
    /\ sends # <<>>
    /\ sends' = Tail(sends)
    /\ autoSubmitting' = FALSE
    /\ UNCHANGED <<selected, selectedData, detailsHidden, emptyShown, editor, typed, pendingList, ticks, clears, timers, shownStale>>
    /\ MockOnly

\* The post rejects, or its answer is not JSON: sendResponse ends at the exception.
SendThrows ==
    /\ sends # <<>>
    /\ sends' = Tail(sends)
    /\ UNCHANGED <<selected, selectedData, autoSubmitting, detailsHidden, emptyShown, editor, typed, pendingList, ticks, clears, timers, shownStale>>
    /\ MockOnly

\* The last request of the list that is not completed.
oldestActive(list) ==
    {k \in 1..Len(list) : ~list[k].completed /\ \A j \in (k + 1)..Len(list) : list[j].completed}

\* The first request of the list that is not completed, as a set of at most one index.
newestActive(list) ==
    {k \in 1..Len(list) : ~list[k].completed /\ \A j \in 1..(k - 1) : list[j].completed}

\* selectedEntry is missing or completed.
NeedsSelection(list) ==
    \/ selected = "null"
    \/ ~InList(list, selected)
    \/ \E k \in 1..Len(list) : list[k].request_id = selected /\ list[k].completed

RemoveAt(s, i) == SubSeq(s, 1, i - 1) \o SubSeq(s, i + 1, Len(s))

\* /mock/pending answers the i-th tick in flight with a list.  tick() draws the list and selects
\* a request where its rule asks for one; then the caller that awaited tick() goes on: sendResponse
\* arms the follow-up timeout, hides #details, shows #empty and clears autoSubmitting; clearPending
\* arms the follow-up timeout.
TickDone(stops) ==
    \E i \in 1..Len(ticks), list \in Lists, data \in stops \cup {NoData} :
       LET owner == ticks[i].owner
           pick == newestActive(list)
           reselect == NeedsSelection(list) /\ pick # {}
       IN  /\ pendingList' = list
           /\ (owner # "timer") => timers < MaxTimers
           /\ (~reselect) => data = NoData
           /\ shownStale' = ticks[i].stale
           /\ ticks' = RemoveAt([k \in 1..Len(ticks) |->
                                   [ticks[k] EXCEPT !.stale = ticks[k].stale \/ k < i]], i)
           /\ IF reselect
              THEN /\ \E k \in pick : selected' = list[k].request_id
                   /\ selectedData' = data
                   /\ editor' = getPrefillParam /\ typed' = getPrefillParam
              ELSE UNCHANGED <<selected, selectedData, editor, typed>>
           /\ detailsHidden' = IF owner = "send" THEN TRUE ELSE IF reselect THEN FALSE ELSE detailsHidden
           /\ emptyShown' = IF owner = "send" THEN TRUE ELSE IF reselect THEN FALSE ELSE emptyShown
           /\ timers' = IF owner = "timer" THEN timers ELSE timers + 1
           /\ autoSubmitting' = IF owner = "send" THEN FALSE ELSE autoSubmitting
           /\ UNCHANGED <<sends, clears>>
           /\ MockOnly

\* The fetch of /mock/pending rejects: tick() throws, and so does the caller awaiting it.
TickRejects ==
    /\ \E i \in 1..Len(ticks) : ticks' = RemoveAt(ticks, i)
    /\ UNCHANGED <<selected, selectedData, autoSubmitting, detailsHidden, emptyShown, editor, typed,
                   pendingList, sends, clears, timers, shownStale>>
    /\ MockOnly

\* /mock/pending answers with JSON that is no array: renderPending empties the list, then throws.
TickNotList ==
    /\ \E i \in 1..Len(ticks) :
          /\ shownStale' = ticks[i].stale
          /\ ticks' = RemoveAt([k \in 1..Len(ticks) |->
                                  [ticks[k] EXCEPT !.stale = ticks[k].stale \/ k < i]], i)
    /\ pendingList' = <<>>
    /\ UNCHANGED <<selected, selectedData, autoSubmitting, detailsHidden, emptyShown, editor, typed,
                   sends, clears, timers>>
    /\ MockOnly

\* setInterval(tick, 1500)
IntervalTick ==
    /\ Len(ticks) < MaxTicks
    /\ IssueTick("timer")
    /\ UNCHANGED <<selected, selectedData, autoSubmitting, detailsHidden, emptyShown, editor, typed,
                   pendingList, sends, clears, timers, shownStale>>
    /\ MockOnly

\* A follow-up timeout fires: if (!selected) tick()
TimerFire ==
    /\ timers > 0
    /\ timers' = timers - 1
    /\ IF selected = "null"
       THEN Len(ticks) < MaxTicks /\ IssueTick("timer")
       ELSE UNCHANGED ticks
    /\ UNCHANGED <<selected, selectedData, autoSubmitting, detailsHidden, emptyShown, editor, typed,
                   pendingList, sends, clears, shownStale>>
    /\ MockOnly

\* The x button of an entry: clearPending up to its await.
ClearClick ==
    /\ Len(clears) < MaxClears
    /\ \E k \in 1..Len(pendingList) : clears' = Append(clears, pendingList[k].request_id)
    /\ UNCHANGED <<selected, selectedData, autoSubmitting, detailsHidden, emptyShown, editor, typed,
                   pendingList, ticks, sends, timers, shownStale>>
    /\ MockOnly

\* The post of clearPending is answered: the selection is dropped if it was the cleared request,
\* and tick() is awaited.
ClearReply ==
    /\ clears # <<>> /\ Len(ticks) < MaxTicks
    /\ clears' = Tail(clears)
    /\ IF selected = Head(clears)
       THEN /\ selected' = "null" /\ selectedData' = NoData
            /\ detailsHidden' = TRUE /\ emptyShown' = TRUE
       ELSE UNCHANGED <<selected, selectedData, detailsHidden, emptyShown>>
    /\ IssueTick("clear")
    /\ UNCHANGED <<autoSubmitting, editor, typed, pendingList, sends, timers, shownStale>>
    /\ MockOnly

\* The post of clearPending rejects.
ClearThrows ==
    /\ clears # <<>>
    /\ clears' = Tail(clears)
    /\ UNCHANGED <<selected, selectedData, autoSubmitting, detailsHidden, emptyShown, editor, typed,
                   pendingList, ticks, sends, timers, shownStale>>
    /\ MockOnly

\* The page after its script ran: nothing selected, the first tick() awaiting its answer.
MockInit ==
    /\ selected = "null" /\ selectedData = NoData /\ autoSubmitting = FALSE
    /\ detailsHidden = TRUE /\ emptyShown = TRUE
    /\ editor = <<>> /\ typed = <<>> /\ pendingList = <<>>
    /\ ticks = <<[owner |-> "timer", stale |-> FALSE]>>
    /\ sends = <<>> /\ clears = <<>> /\ timers = 0 /\ shownStale = FALSE

----------------------------------------------------------------------------
(* The log viewer: its selection, its tabs, the fetches it awaits and the  *)
(* server's version counter.  A fetch is answered from the server's state  *)
(* at the step in which the answer arrives.                                *)

Uids == {"u1", "u2"}
MaxVersion == 3

\* The IIDs the server lists for a UID.
IidsOf == [u \in Uids |-> IF u = "u1" THEN "i1" ELSE "i2"]

\* The parts of the view, each drawn from its own fetch: /types, /uids, /iids, /messages.
Parts == {"types", "uids", "iids", "messages"}

\* An async function at an await: what it waits for, and the uid it asked /iids for.
At(k, a, u) == [kind |-> k, at |-> a, uid |-> u]

NoClear == At("clear", "idle", "")

ViewerOnly == UNCHANGED <<pipeVars, mockVars>>

TypesKept == UNCHANGED <<typeStates, stored, serverTypes>>

Types == {"t1", "t2"}

\* The type tile's click handler: off -> include -> exclude -> off, with two states only.
nextToggle(curr) == IF curr = "off" THEN "include" ELSE "off"

\* const next = curr === 'off' ? 'include' : curr === 'include' ? 'exclude' : 'off'
nextState(curr) ==
    IF curr = "off" THEN "include" ELSE IF curr = "include" THEN "exclude" ELSE "off"

\* localStorage without the key.
EmptyStore == [t \in Types |-> "none"]

\* saveTypeStates: the object written, holding the types whose state is include or exclude.
saveTypeStates(ts) ==
    [t \in Types |-> IF ts[t] \in {"include", "exclude"} THEN ts[t] ELSE "none"]

\* loadTypeStates(types) reading the object obj: the map is cleared, then every listed type gets
\* its stored include or exclude, or off.
loadTypeStates(obj, types) ==
    [t \in Types |-> IF t \notin types THEN "absent"
                     ELSE IF obj[t] \in {"include", "exclude"} THEN obj[t] ELSE "off"]

\* loadTypes, loadUids, loadIids(selectedUid), renderMessages in a row: the step taken when the
\* fetch that chain c awaits is answered; next is what the caller does after the last of them.
Reload(c, next) ==
    CASE c.at = "types" ->
            /\ next' = [c EXCEPT !.at = "uids"]
            /\ stale' = stale \ {"types"}
            /\ \E obj \in {stored, EmptyStore} : typeStates' = loadTypeStates(obj, serverTypes)
            /\ UNCHANGED <<uidTabs, iidTabs>>
      [] c.at = "uids" ->
            /\ uidTabs' = TRUE
            /\ IF selectedUid = ""
               THEN /\ iidTabs' = "" /\ next' = [c EXCEPT !.at = "messages"]
                    /\ stale' = stale \ {"uids", "iids"}
               ELSE /\ UNCHANGED iidTabs /\ next' = [c EXCEPT !.at = "iids", !.uid = selectedUid]
                    /\ stale' = stale \ {"uids"}
            /\ UNCHANGED typeStates
      [] c.at = "iids" ->
            /\ iidTabs' = c.uid
            /\ next' = [c EXCEPT !.at = "messages", !.uid = ""]
            /\ stale' = stale \ {"iids"}
            /\ UNCHANGED <<uidTabs, typeStates>>
      [] c.at = "messages" ->
            /\ stale' = stale \ {"messages"}
            /\ next' = At(c.kind, IF c.kind = "init" THEN "version" ELSE "idle", "")
            /\ UNCHANGED <<uidTabs, iidTabs, typeStates>>

\* The fetch awaited by the initial load or by maybeRefresh's reload is answered.
LoaderStep ==
    /\ loader.at \in Parts
    /\ Reload(loader, loader)
    /\ UNCHANGED <<selectedUid, selectedIid, iidLoads, lastVersion, serverVersion, clearer>>
    /\ UNCHANGED <<stored, serverTypes>> /\ ViewerOnly

\* A fetch of the initial load fails: the load ends there and the poll is never armed.
InitLoadFails ==
    /\ loader.kind = "init" /\ loader.at \in Parts
    /\ loader' = At("init", "dead", "")
    /\ UNCHANGED <<selectedUid, selectedIid, uidTabs, iidTabs, iidLoads, lastVersion,
                   serverVersion, stale, clearer>>
    /\ TypesKept /\ ViewerOnly

\* The initial load reads /version, or fails to, and arms the poll.
InitVersion ==
    /\ loader.kind = "init" /\ loader.at = "version"
    /\ \/ lastVersion' = serverVersion
       \/ UNCHANGED lastVersion
    /\ loader' = At("poll", "idle", "")
    /\ UNCHANGED <<selectedUid, selectedIid, uidTabs, iidTabs, iidLoads, serverVersion,
                   stale, clearer>>
    /\ TypesKept /\ ViewerOnly

\* setInterval(maybeRefresh, 1000)
PollFire ==
    /\ loader.kind = "poll" /\ loader.at = "idle"
    /\ loader' = At("poll", "version", "")
    /\ UNCHANGED <<selectedUid, selectedIid, uidTabs, iidTabs, iidLoads, lastVersion,
                   serverVersion, stale, clearer>>
    /\ TypesKept /\ ViewerOnly

\* maybeRefresh gets the version: a new one is stored and the reload begins.
PollVersion ==
    /\ loader.kind = "poll" /\ loader.at = "version"
    /\ IF serverVersion # lastVersion
       THEN lastVersion' = serverVersion /\ loader' = At("poll", "types", "")
       ELSE UNCHANGED lastVersion /\ loader' = At("poll", "idle", "")
    /\ UNCHANGED <<selectedUid, selectedIid, uidTabs, iidTabs, iidLoads, serverVersion,
                   stale, clearer>>
    /\ TypesKept /\ ViewerOnly

\* A fetch of maybeRefresh fails: the catch swallows the error.
PollFails ==
    /\ loader.kind = "poll" /\ loader.at \in Parts \cup {"version"}
    /\ loader' = At("poll", "idle", "")
    /\ UNCHANGED <<selectedUid, selectedIid, uidTabs, iidTabs, iidLoads, lastVersion,
                   serverVersion, stale, clearer>>
    /\ TypesKept /\ ViewerOnly

\* The Clear button: DELETE /logs is sent.
clearBtnClick ==
    /\ clearer.at = "idle"
    /\ clearer' = At("clear", "delete", "")
    /\ UNCHANGED <<selectedUid, selectedIid, uidTabs, iidTabs, iidLoads, lastVersion,
                   serverVersion, stale, loader>>
    /\ TypesKept /\ ViewerOnly

\* DELETE /logs is answered or fails: either way the selection is reset and the reload begins.
ClearDeleted ==
    /\ clearer.at = "delete"
    /\ selectedUid' = "" /\ selectedIid' = ""
    /\ clearer' = At("clear", "types", "")
    /\ UNCHANGED <<uidTabs, iidTabs, iidLoads, lastVersion, serverVersion, stale, loader>>
    /\ TypesKept /\ ViewerOnly

\* The fetch awaited by the Clear handler's reload is answered.
ClearStep ==
    /\ clearer.at \in Parts
    /\ Reload(clearer, clearer)
    /\ UNCHANGED <<selectedUid, selectedIid, iidLoads, lastVersion, serverVersion, loader>>
    /\ UNCHANGED <<stored, serverTypes>> /\ ViewerOnly

\* A fetch of the Clear handler's reload fails: the handler ends there.
ClearFails ==
    /\ clearer.at \in Parts
    /\ clearer' = NoClear
    /\ UNCHANGED <<selectedUid, selectedIid, uidTabs, iidTabs, iidLoads, lastVersion,
                   serverVersion, stale, loader>>
    /\ TypesKept /\ ViewerOnly

\* A UID tab: the selection moves, /iids is asked for that uid and not awaited.
UidClick ==
    /\ uidTabs
    /\ \E uid \in Uids :
          /\ selectedUid' = uid /\ selectedIid' = ""
          /\ iidLoads' = iidLoads \cup {uid}
    /\ UNCHANGED <<uidTabs, iidTabs, lastVersion, serverVersion, stale, loader, clearer>>
    /\ TypesKept /\ ViewerOnly

\* The All tab of the UID row.
UidAllClick ==
    /\ uidTabs
    /\ selectedUid' = "" /\ selectedIid' = ""
    /\ iidTabs' = "" /\ stale' = stale \ {"iids"}
    /\ UNCHANGED <<uidTabs, iidLoads, lastVersion, serverVersion, loader, clearer>>
    /\ TypesKept /\ ViewerOnly

\* An IID tab of the row on display.
IidClick ==
    /\ iidTabs # ""
    /\ selectedIid' = IidsOf[iidTabs]
    /\ UNCHANGED <<selectedUid, uidTabs, iidTabs, iidLoads, lastVersion, serverVersion,
                   stale, loader, clearer>>
    /\ TypesKept /\ ViewerOnly

\* The All tab of the IID row.
IidAllClick ==
    /\ selectedIid # ""
    /\ selectedIid' = ""
    /\ UNCHANGED <<selectedUid, uidTabs, iidTabs, iidLoads, lastVersion, serverVersion,
                   stale, loader, clearer>>
    /\ TypesKept /\ ViewerOnly

\* /iids answers a tab click's request: renderIidTabs draws the IIDs of the uid asked for.
IidsArrive ==
    /\ \E uid \in iidLoads :
          /\ iidLoads' = iidLoads \ {uid}
          /\ iidTabs' = uid
    /\ stale' = stale \ {"iids"}
    /\ UNCHANGED <<selectedUid, selectedIid, uidTabs, lastVersion, serverVersion,
                   loader, clearer>>
    /\ TypesKept /\ ViewerOnly

\* /iids fails for a tab click's request: nothing is drawn.
IidsFail ==
    /\ \E uid \in iidLoads : iidLoads' = iidLoads \ {uid}
    /\ UNCHANGED <<selectedUid, selectedIid, uidTabs, iidTabs, lastVersion, serverVersion,
                   stale, loader, clearer>>
    /\ TypesKept /\ ViewerOnly

\* The server logs a message: its version counter goes up, and every part on display is out of date.
ServerBump ==
    /\ serverVersion < MaxVersion
    /\ serverVersion' = serverVersion + 1
    /\ stale' = Parts
    /\ UNCHANGED <<selectedUid, selectedIid, uidTabs, iidTabs, iidLoads, lastVersion, loader, clearer>>
    /\ TypesKept /\ ViewerOnly

\* The server logs a message of a type it had not seen: /types grows and the version goes up.
ServerLogsType ==
    /\ serverVersion < MaxVersion
    /\ \E t \in Types \ serverTypes : serverTypes' = serverTypes \cup {t}
    /\ serverVersion' = serverVersion + 1
    /\ stale' = Parts
    /\ UNCHANGED <<selectedUid, selectedIid, uidTabs, iidTabs, iidLoads, lastVersion, loader, clearer,
                   typeStates, stored>>
    /\ ViewerOnly

\* A click on the tile of a type on display: its state moves on, and the states are saved;
\* localStorage.setItem may throw, which the handler ignores.
TileClick ==
    /\ \E t \in Types :
          /\ typeStates[t] # "absent"
          /\ typeStates' = [typeStates EXCEPT ![t] = nextState(typeStates[t])]
    /\ stored' \in {saveTypeStates(typeStates'), stored}
    /\ UNCHANGED <<selectedUid, selectedIid, uidTabs, iidTabs, iidLoads, lastVersion,
                   serverVersion, stale, loader, clearer, serverTypes>>
    /\ ViewerOnly

\* The page after its script ran: nothing selected, no tab drawn, the initial load at /types.
ViewerInit ==
    /\ selectedUid = "" /\ selectedIid = ""
    /\ uidTabs = FALSE /\ iidTabs = "" /\ iidLoads = {}
    /\ lastVersion = 0 /\ serverVersion = 1 /\ stale = Parts
    /\ loader = At("init", "types", "") /\ clearer = NoClear
    /\ typeStates = [t \in Types |-> "absent"] /\ stored = EmptyStore /\ serverTypes = {"t1"}


----------------------------------------------------------------------------

PipeInit ==
    /\ pc = "idle" /\ script = "none" /\ top = "none" /\ parent = "none"
    /\ exitCode = 0 /\ err = "none"
    /\ env \in {"faulty", "resolved"}
    /\ pins = [e \in Exts |-> "pinned"]
    /\ second = FALSE
    /\ cache = [p \in Paths |-> "absent"]
    /\ tarc = [e \in Exts |-> [ver |-> "none", files |-> "none", mod |-> NoModule]]
    /\ pkgFiles = "none"
    /\ guest = [venv |-> "absent", envWasm |-> FALSE]
    /\ did = {} /\ verified = {} /\ leftover = {} /\ failedStep = FALSE
    /\ art0 = NoArtifacts
    /\ retry = FALSE /\ build = EmptyBuild /\ wrapC = "none" /\ other = NoRun
    /\ host = DefaultHost

Init == PipeInit /\ MockInit /\ ViewerInit

\* The pipeline with the default pins.
Next ==
    \/ StartRun \/ Interrupt \/ SetEnv \/ Delete
    \/ Cpython \/ Extension \/ Driver

Spec == Init /\ [][Next]_vars

\* The extension builders under version overrides, on a cache in which
\* build_cpython.sh has provisioned the toolchain and the headers.
InitPins ==
    /\ pc = "idle" /\ script = "none" /\ top = "none" /\ parent = "none"
    /\ exitCode = 0 /\ err = "none"
    /\ env \in {"faulty", "resolved"}
    /\ pins \in [Exts -> Versions]
    /\ second = FALSE
    /\ cache = [p \in Paths |->
                  IF p \in {"wasiTar", "pyTar"} THEN "match"
                  ELSE IF p \in {"wasiDir", "pySrc", "headers"} THEN "full"
                  ELSE "absent"]
    /\ tarc = [e \in Exts |-> [ver |-> "none", files |-> "none", mod |-> NoModule]]
    /\ pkgFiles = "none"
    /\ guest = [venv |-> "absent", envWasm |-> FALSE]
    /\ did = {} /\ verified = {} /\ leftover = {} /\ failedStep = FALSE
    /\ art0 = NoArtifacts
    /\ retry = FALSE /\ build = EmptyBuild /\ wrapC = "none" /\ other = NoRun
    /\ host = DefaultHost
    /\ MockInit /\ ViewerInit

NextPins ==
    \/ StartExtension \/ Interrupt \/ SetEnv \/ SetPin
    \/ Extension

SpecPins == InitPins /\ [][NextPins]_vars

\* Two runs of one extension builder on the same tool-cache: while a run is
\* under way the same script is started a second time. Both are bash
\* processes of their own; they share TOOL_DIR and, in it, BUILD_DIR.
StartOther ==
    /\ ~Idle /\ script \in ExtScripts /\ top \in ExtScripts /\ other = NoRun
    /\ other' = Ctx
    /\ script' = script /\ top' = top /\ pc' = Entry(script)
    /\ parent' = "none" /\ exitCode' = 0 /\ err' = "none"
    /\ second' = FALSE /\ retry' = FALSE
    /\ did' = {} /\ verified' = {} /\ failedStep' = FALSE /\ wrapC' = "none"
    /\ leftover' = {d \in Intermediate : Exists(d)}
    /\ art0' = NoArtifacts
    /\ UNCHANGED <<env, pins, host, uiVars, build, cache, tarc, guest, pkgFiles>>

\* The operating system lets the other process run.
Switch ==
    /\ other.pc \notin {"idle", "done"}
    /\ other' = Ctx
    /\ pc' = other.pc /\ script' = other.script /\ top' = other.top
    /\ parent' = other.parent /\ exitCode' = other.exitCode /\ err' = other.err
    /\ second' = other.second /\ retry' = other.retry
    /\ did' = other.did /\ verified' = other.verified /\ leftover' = other.leftover
    /\ failedStep' = other.failedStep /\ art0' = other.art0 /\ wrapC' = other.wrapC
    /\ UNCHANGED <<env, pins, host, uiVars, build, cache, tarc, guest, pkgFiles>>

InitRace == InitPins /\ env = "resolved" /\ pins = [e \in Exts |-> "pinned"]

NextRace == StartExtension \/ StartOther \/ Switch \/ Extension

SpecRace == InitRace /\ [][NextRace]_vars

\* The pipeline from an empty tool-cache when no external step fails, no
\* checksum differs and no run is interrupted; a script that is running
\* goes on to its next command.
InitClean == Init /\ env = "resolved"

NextClean == StartRun \/ Cpython \/ Extension \/ Driver

SpecClean == InitClean /\ [][NextClean]_vars /\ WF_vars(NextClean)

\* build_cpython.sh on any machine, from an empty tool-cache.
StartCpython == Start({"build_cpython.sh"})

InitPlatform ==
    /\ pc = "idle" /\ script = "none" /\ top = "none" /\ parent = "none"
    /\ exitCode = 0 /\ err = "none"
    /\ env \in {"faulty", "resolved"}
    /\ pins = [e \in Exts |-> "pinned"]
    /\ second = FALSE
    /\ cache = [p \in Paths |-> "absent"]
    /\ tarc = [e \in Exts |-> [ver |-> "none", files |-> "none", mod |-> NoModule]]
    /\ pkgFiles = "none"
    /\ guest = [venv |-> "absent", envWasm |-> FALSE]
    /\ did = {} /\ verified = {} /\ leftover = {} /\ failedStep = FALSE
    /\ art0 = NoArtifacts
    /\ retry = FALSE /\ build = EmptyBuild /\ wrapC = "none" /\ other = NoRun
    /\ host \in Hosts
    /\ MockInit /\ ViewerInit

NextPlatform == StartCpython \/ Cpython

SpecPlatform == InitPlatform /\ [][NextPlatform]_vars

----------------------------------------------------------------------------
(* The request-mocking page alone.                                         *)

\* The texts and stops of the runs that follow the selection and the requests in flight.
MockTexts == {<<"a">>, <<"a", "b">>}

MockStops == {StopString(<<"b">>)}

InitMock == InitClean

NextMock ==
    \/ ItemClick(MockStops) \/ Input(MockTexts) \/ ClickGenerate \/ KeyCtrlEnter
    \/ SendReplyOk \/ SendReplyNotOk \/ SendThrows
    \/ IntervalTick \/ TimerFire \/ TickDone(MockStops) \/ TickRejects \/ TickNotList
    \/ ClearClick \/ ClearReply \/ ClearThrows

SpecMock == InitMock /\ [][NextMock]_vars

----------------------------------------------------------------------------
(* The editor of one selected request, over every text and every stop.     *)

InitCut ==
    /\ PipeInit /\ env = "resolved" /\ ViewerInit
    /\ selected = "r1" /\ selectedData \in StopValues /\ autoSubmitting = FALSE
    /\ detailsHidden = FALSE /\ emptyShown = FALSE
    /\ editor = getPrefillParam /\ typed = getPrefillParam
    /\ pendingList = <<[request_id |-> "r1", completed |-> FALSE]>>
    /\ ticks = <<>> /\ sends = <<>> /\ clears = <<>> /\ timers = 0 /\ shownStale = FALSE

NextCut ==
    \/ ItemClick(StopValues) \/ Input(Texts) \/ ClickGenerate \/ KeyCtrlEnter
    \/ SendReplyNotOk \/ SendThrows

SpecCut == InitCut /\ [][NextCut]_vars

----------------------------------------------------------------------------
(* The log viewer alone.                                                   *)

InitViewer == InitClean

NextViewer ==
    \/ LoaderStep \/ InitLoadFails \/ InitVersion \/ PollFire \/ PollVersion \/ PollFails
    \/ clearBtnClick \/ ClearDeleted \/ ClearStep \/ ClearFails
    \/ UidClick \/ UidAllClick \/ IidClick \/ IidAllClick \/ IidsArrive \/ IidsFail
    \/ ServerBump

SpecViewer == InitViewer /\ [][NextViewer]_vars

----------------------------------------------------------------------------
(* The log viewer's type filter, with the reloads that rebuild it.         *)

InitTypes == InitClean

NextTypes ==
    \/ LoaderStep \/ InitVersion \/ PollFire \/ PollVersion \/ PollFails
    \/ ServerBump \/ ServerLogsType \/ TileClick

SpecTypes == InitTypes /\ [][NextTypes]_vars

----------------------------------------------------------------------------
(* The claims.                                                             *)

Running == ~Idle
ExtWorkSteps == {"e_reset", "e_fetch", "e_dl", "e_verify", "e_unpack", "e_copy",
                 "e_locate", "e_compile", "e_link", "e_pack", "e_pack_end"}
AfterVerify == {"e_unpack", "e_copy", "e_locate", "e_compile", "e_link", "e_pack", "e_pack_end"}

\* C1: stages respect the dependency order. The configure step of
\* build_cpython.sh is reached only with an executable toolchain compiler,
\* and every fetch, compile, link or package step of an extension builder
\* only with the compiler executable and the header directory present.
C1_DependencyOrder ==
    /\ InCpython("c_configure") => ClangExecutable
    /\ (script \in ExtScripts /\ pc \in ExtWorkSteps) => (ClangExecutable /\ HeadersExist)

\* C1 witness: a driver run that has configured CPython and compiled an
\* extension is about to link it.
C1_Witness ==
    /\ top = "build.sh" /\ InExt("e_link")
    /\ {"configure", "compile"} \subseteq did

\* C2 (as claimed): at every point of every run each cache-keyed artifact is
\* either absent or complete, so an interruption never leaves a partial one
\* behind that an existence check would accept.
C2_ArtifactsAbsentOrComplete ==
    \A a \in {"wasiDir", "headers", "msTar", "xxTar"} : cache[a] \in {"absent", "full"}

\* C3 (as claimed): a stage is past its checksum verification only if the
\* archive it fetched matches the pinned checksum; on a mismatch no extract,
\* configure, compile, link or package step is reached.
C3_MismatchStopsStage ==
    /\ (script \in ExtScripts /\ pc \in AfterVerify) => cache[UsedArchive(Ext)] = "match"
    /\ (script = "build_cpython.sh" /\ pc \in {"c_py_extract", "c_py_untar", "c_configure",
                                               "c_hdr_reset", "c_hdr_copy"})
          => cache["pyTar"] = "match"

\* C4 (as claimed): the archive a stage extracts is a file whose checksum
\* the same run has compared with the pinned reference.
C4_ExtractedFileWasVerified ==
    /\ (script \in ExtScripts /\ pc \in AfterVerify) => UsedArchive(Ext) \in verified
    /\ InCpython("c_wasi_untar") => "wasiTar" \in verified
    /\ InCpython("c_py_untar") => "pyTar" \in verified
    /\ (script = "build.sh" /\ pc \in {"d_x_pyd", "d_x_ms", "d_x_xx"}) => "pydTar" \in verified

CacheWork == {"download", "extract", "configure", "copy", "compile", "link", "package"}

\* C5 (as claimed): a run of any script that directly follows a successful
\* run of the same script with unchanged pins performs no download and no
\* configure, compile, link or assembly work, and leaves the final
\* artifacts as they were.
C5_SecondRunDoesNoWork ==
    second => /\ did \cap {"download", "configure", "compile", "link", "assemble"} = {}
              /\ FinalArtifacts = art0

\* C5 (amended): such a second run performs no download, extraction,
\* configure, copy, compile, link or packaging and leaves the toolchain, the
\* headers and every tarball as they were; the component assembly has no
\* existence check and a second run of build.sh performs it again.
C5_SecondRunSkipsCachedStages ==
    second => /\ did \cap CacheWork = {}
              /\ FinalArtifacts = art0
              /\ (pc = "done" /\ top = "build.sh") => "assemble" \in did
              /\ (top # "build.sh") => "assemble" \notin did

\* C5 witness: a second run of build.sh has ended successfully.
C5_Witness ==
    second /\ pc = "done" /\ top = "build.sh" /\ exitCode = 0 /\ guest.envWasm

\* The messages that name build_cpython.sh as the stage to run first.
NamesBuildCpython == {"WASI SDK not found; run build_cpython.sh first",
                      "Python 3.12 headers not found; run build_cpython.sh first"}

\* C6 (as claimed): an extension builder run while the header directory is
\* absent ends nonzero with a message naming build_cpython.sh, whatever the
\* cache holds.
C6_FailsWithoutHeaders ==
    (pc = "done" /\ top \in ExtScripts /\ ~HeadersExist)
        => (exitCode # 0 /\ err \in NamesBuildCpython)

\* C6 (amended): an extension builder run while the header directory is
\* absent and its output tarball does not exist ends nonzero, having done
\* no work, with a message naming build_cpython.sh; when its output tarball
\* exists it exits 0 as a cache hit without looking at the headers.
C6_FailsWithoutHeadersUnlessCached ==
    (pc = "done" /\ top \in ExtScripts /\ ~HeadersExist)
        => IF Exists(OutTar(ExtOf(top)))
           THEN exitCode = 0 /\ err = "cache hit" /\ did = {}
           ELSE exitCode = 1 /\ err \in NamesBuildCpython /\ did = {}

\* C6 witness: build_msgspec.sh, run with the toolchain present and the
\* header directory absent, has ended with the header message.
C6_Witness ==
    /\ pc = "done" /\ top = "build_msgspec.sh" /\ ~HeadersExist /\ ClangExecutable
    /\ exitCode = 1 /\ err = "Python 3.12 headers not found; run build_cpython.sh first"

\* C7 (as claimed): once the external cause of failures is resolved, a
\* rerun of the pipeline with no manual cleanup of the cache ends
\* successfully.
C7_RerunSucceeds ==
    (pc = "done" /\ top = "build.sh" /\ env = "resolved") => exitCode = 0

\* C8 (as claimed): a step consumes an intermediate directory only after
\* this run has reset it, so it reads nothing an earlier run left there.
C8_IntermediateDirsReset ==
    /\ (script = "build_cpython.sh" /\ pc \in {"c_configure", "c_hdr_reset", "c_hdr_copy"})
          => "pySrc" \notin leftover
    /\ (script \in ExtScripts /\ pc \in AfterVerify) => BuildDir(Ext) \notin leftover
    /\ InCpython("c_clang") => "wasiTmp" \notin leftover

Missing(s) ==
    CASE s = "build_cpython.sh" -> ~ClangExecutable \/ ~HeadersExist
      [] s = "build_msgspec.sh" -> ~Exists("msTar")
      [] s = "build_xxhash.sh" -> ~Exists("xxTar")
      [] OTHER -> FALSE

C10_FailFast ==
    failedStep => (pc = "done" /\ exitCode # 0)

C12_AssemblerChecksTarballs ==
    /\ InDriver("d_venv") => (Exists("pydTar") /\ Exists("msTar") /\ Exists("xxTar"))
    /\ (script = "build.sh" /\ pc \in {"d_prelude", "d_componentize"}) => guest.venv = "staged"
    /\ (pc = "done" /\ top = "build.sh" /\ err = "tar")
          => (exitCode # 0 /\ guest.venv # "staged")

\* C12 witness: a run of build.sh has ended at the extraction of an
\* extension tarball that cannot be extracted.
C12_Witness ==
    /\ pc = "done" /\ top = "build.sh" /\ err = "tar" /\ exitCode = 1
    /\ (~Extractable("msTar") \/ ~Extractable("xxTar"))

\* The operating system family of a machine, and the platform tag the
\* specification gives each supported pair of family and architecture.
OsFamily(h) ==
    IF Head(h.ostype) = "linux" THEN "Linux"
    ELSE IF Head(h.ostype) = "darwin" THEN "Darwin" ELSE "Other"
TagOf(family, arch) ==
    CASE family = "Linux" /\ arch = "x86_64" -> <<"x86_64", "linux">>
      [] family = "Linux" /\ arch = "aarch64" -> <<"arm64", "linux">>
      [] family = "Darwin" /\ arch = "x86_64" -> <<"x86_64", "macos">>
      [] family = "Darwin" /\ arch = "arm64" -> <<"arm64", "macos">>
      [] OTHER -> <<"none", "none">>

\* C13 (as claimed): build_cpython.sh gets past its platform detection only
\* on one of the four supported pairs, with the platform tag of the table;
\* on every other pair it ends with the unsupported-platform error, having
\* attempted no download.
C13_PlatformResolution ==
    /\ (script = "build_cpython.sh" /\ pc \notin {"c_detect", "done", "idle"})
          => Platform(host) = TagOf(OsFamily(host), host.arch)
    /\ (pc = "done" /\ top = "build_cpython.sh"
           /\ TagOf(OsFamily(host), host.arch) = <<"none", "none">>)
          => (exitCode # 0 /\ err = "Unsupported OS" /\ "download" \notin did)

\* C14 (as claimed): every extension tarball the pipeline has produced holds
\* all the pure-source, stub and marker files of its source tree and the one
\* compiled module named with the cpython-312 tag and the wasm32-wasi
\* triple; a run in which a copy of these files failed produced no tarball.
C14_TarballHasDeclaredLayout ==
    \A e \in Exts :
        cache[OutTar(e)] = "full"
            => /\ tarc[e].files = "all"
               /\ tarc[e].mod = [base |-> IF e = "msgspec" THEN "_core" ELSE "_xxhash",
                                 abi |-> "cpython-312", triple |-> "wasm32-wasi"]

\* The steps of build_cpython.sh that provision the toolchain.
Provisioning == {"c_wasi_fetch", "c_wasi_dl", "c_wasi_verify", "c_wasi_extract", "c_clang"}

\* C15 (as claimed): a run of build_cpython.sh that found the toolchain
\* directory with an executable compiler downloads nothing and verifies no
\* checksum while it provisions the toolchain, whether the SDK archive is
\* still in the tool-cache or not.
C15_ProvisionedToolchainSkipsAll ==
    (script = "build_cpython.sh" /\ pc \in Provisioning /\ ClangExecutable /\ "extract" \notin did)
        => did \cap {"download", "verify"} = {}

\* C16 (as claimed): an extension builder compiles only after it has found
\* the native wrapper source under src/ or under the package directory of
\* the unpacked tree, taking the one under src/ when both are there; on a
\* tree that has it under neither no compile step is run.
C16_SourceLocatedBeforeCompile ==
    /\ (script \in ExtScripts /\ "compile" \in did) => build.src \in {"src", "pkg", "both"}
    /\ (InExt("e_compile") /\ Ext = "xxhash" /\ build.src = "both") => wrapC = "src"
    /\ (pc = "done" /\ top \in ExtScripts /\ "extract" \in did /\ build.src = "neither")
          => (exitCode # 0 /\ "compile" \notin did)

\* C17: when no external step fails and every checksum matches, every run
\* of build.sh, the first one on the empty tool-cache included, terminates,
\* with status 0, the toolchain, the header bundle, the pydantic_core
\* archive and both extension tarballs complete in the tool-cache, and
\* env.wasm written.
C17_FullRunSucceeds ==
    /\ []((pc = "done" /\ top = "build.sh")
            => /\ exitCode = 0
               /\ ClangExecutable /\ cache["headers"] = "full"
               /\ cache["msTar"] = "full" /\ cache["xxTar"] = "full"
               /\ cache["pydTar"] = "match"
               /\ guest.envWasm)
    /\ ((top = "build.sh" /\ Running) ~> (top = "build.sh" /\ pc = "done"))

\* C17 witness: one run of build.sh has downloaded, configured, compiled,
\* linked, packaged and assembled everything and has ended with status 0.
C17_Witness ==
    /\ pc = "done" /\ top = "build.sh" /\ exitCode = 0 /\ guest.envWasm
    /\ verified = {"wasiTar", "pyTar", "pydTar", "msArcPinned", "xxArcPinned"}
    /\ did = {"download", "verify", "extract", "configure", "copy", "compile",
              "link", "package", "assemble"}

\* C18: nothing excludes a second run on the same tool-cache. Whatever the
\* other run is doing, a run whose existence check finds no tarball goes on
\* to the prerequisite checks and the work, and its reset empties the
\* shared build subtree.
C18_NoMutualExclusion ==
    [][ /\ (InExt("e_cache") /\ ~CacheHit(Ext) /\ other' = other /\ pc' # pc)
            => pc' = "e_prereq"
        /\ (InExt("e_reset") /\ other' = other /\ pc' # pc)
            => (pc' = "e_fetch" /\ pkgFiles' = "none" /\ build' = EmptyBuild)
      ]_vars

\* C18 witness: two runs of the same builder are both past the existence
\* check and at work; one has copied its package files and not yet packaged
\* them, and the reset of the other has just removed them.
C18_Witness ==
    /\ script \in ExtScripts /\ other.script = script
    /\ pc = "e_fetch"
    /\ other.pc \in {"e_locate", "e_compile", "e_link", "e_pack"} /\ "copy" \in other.did
    /\ pkgFiles = "none" /\ build = EmptyBuild

\* The CPython release whose headers build_cpython.sh puts in the header
\* bundle, and the tag of extension modules built for a release.
PyVer == "3.12.0"
AbiTagOf(release) ==
    CASE release \in {"3.12.0"} -> "cpython-312"
      [] release \in {"3.11.0"} -> "cpython-311"
      [] OTHER -> "none"

\* C19: every compiled module, linked in a build subtree or packed in a
\* tarball, is named with the tag cpython-312, which is the tag of the
\* release of the header bundle, and with the triple wasm32-wasi; so the
\* modules of msgspec and xxhash carry the same tag and triple.
C19_SameAbiTag ==
    /\ \A e \in Exts :
          tarc[e].mod # NoModule
              => /\ tarc[e].mod.abi = "cpython-312" /\ tarc[e].mod.abi = AbiTagOf(PyVer)
                 /\ tarc[e].mod.triple = "wasm32-wasi"
    /\ build.mod # NoModule
          => /\ build.mod.abi = AbiTagOf(PyVer) /\ build.mod.triple = "wasm32-wasi"
             /\ HeadersExist
    /\ \A e1, e2 \in Exts :
          (tarc[e1].mod # NoModule /\ tarc[e2].mod # NoModule)
              => /\ tarc[e1].mod.abi = tarc[e2].mod.abi
                 /\ tarc[e1].mod.triple = tarc[e2].mod.triple

\* C19 witness: the tarballs of both extensions hold their compiled module.
C19_Witness ==
    /\ cache["msTar"] = "full" /\ tarc["msgspec"].mod.base = "_core"
    /\ cache["xxTar"] = "full" /\ tarc["xxhash"].mod.base = "_xxhash"

\* C20: an extension builder that runs while its output tarball exists,
\* built from another pin than the one now set, does no work at all: it is
\* at its cache check or has ended with status 0 as a cache hit, and the
\* tarball is still the one built from the old pin.
C20_PinChangeNotDetected ==
    (script \in ExtScripts /\ top \in ExtScripts
       /\ cache[OutTar(Ext)] = "full" /\ tarc[Ext].ver # pins[Ext])
        => /\ did = {}
           /\ \/ pc = "e_cache"
              \/ pc = "done" /\ exitCode = 0 /\ err = "cache hit"

\* C20 witness: build_xxhash.sh, run with XXHASH_VER overridden on a
\* tarball built from the default pin, has ended as a cache hit.
C20_Witness ==
    /\ pc = "done" /\ top = "build_xxhash.sh" /\ err = "cache hit" /\ exitCode = 0
    /\ pins["xxhash"] = "other"
    /\ cache["xxTar"] = "full" /\ tarc["xxhash"].ver = "pinned"

\* C21: once curl has ended, pydantic_core-wasi.tar.gz is never written,
\* repackaged or deleted by a step of any script: it changes only while
\* build.sh downloads it, which it does only when the file is absent. A
\* run whose checksum verification of it fails ends there, nonzero, and the
\* staging tree is as it was.
C21_PrebuiltTarballLeftAlone ==
    [][ /\ (cache["pydTar"]' # cache["pydTar"])
            => \/ InDriver("d_pyd_fetch") /\ cache["pydTar"] = "absent"
               \/ InDriver("d_pyd_dl")
        /\ (InDriver("d_pyd_verify") /\ ~ShasumOK(PydanticSumListed, FALSE) /\ pc' # "idle")
            => (pc' = "done" /\ exitCode' # 0 /\ guest' = guest /\ "assemble" \notin did')
      ]_vars

\* C21 witness: a run of build.sh has ended at the checksum verification of
\* a pydantic_core tarball that an earlier run had left cut short.
C21_Witness ==
    /\ pc = "done" /\ top = "build.sh" /\ err = "integrity" /\ exitCode = 1
    /\ cache["pydTar"] = "mismatch" /\ "pydTar" \in verified
    /\ "download" \notin did /\ "assemble" \notin did

\* C22: in a run of the pipeline there is one process at a time. While a
\* sub-script runs build.sh waits at the position it returns to; a
\* sub-script is started only by build.sh itself, and build_xxhash.sh only
\* after build_msgspec.sh has exited and left its tarball; build.sh is at
\* the command after a sub-script only when that sub-script has exited,
\* its output in the tool-cache.
C22_OneStageAtATime ==
    /\ other = NoRun
    /\ (parent # "none") => (top = "build.sh" /\ script # "build.sh" /\ Running)
    /\ (parent = "none" /\ Running) => script = top
    /\ (top = "build.sh" /\ script = "build_xxhash.sh") => (parent = "d_venv" /\ Exists("msTar"))
    /\ (top = "build.sh" /\ script = "build_msgspec.sh") => parent = "d_xx"
    /\ InDriver("d_pyd_fetch") => (ClangExecutable /\ HeadersExist)
    /\ InDriver("d_xx") => Exists("msTar")
    /\ InDriver("d_venv") => Exists("xxTar")

\* C22 witness: in one run build.sh has had msgspec built and packaged and
\* is now waiting for build_xxhash.sh, which is compiling.
C22_Witness ==
    /\ top = "build.sh" /\ script = "build_xxhash.sh" /\ pc = "e_compile"
    /\ parent = "d_venv" /\ "package" \in did /\ cache["msTar"] = "full"

----------------------------------------------------------------------------
(* The request-mocking page: claims.                                       *)

\* C23: whenever a request is selected (selected is not null), the details pane is visible
\* and the empty placeholder is hidden -- after any sequence of ticks, item clicks, sends and
\* clears, and in particular after sendResponse completed a successful send while other
\* uncompleted requests are pending.
C23_SelectedShowsDetails ==
    selected # "null" => (~detailsHidden /\ ~emptyShown)

SendUnderWay == sends # <<>> \/ \E k \in 1..Len(ticks) : ticks[k].owner = "send"

\* C24: every sendResponse that sets autoSubmitting to true sets it back to false, also when
\* the POST rejects or is answered with something that is not JSON: so autoSubmitting is true
\* only while a sendResponse is under way, and later sends are never blocked by a send that ended.
C24_AutoSubmittingIsReset ==
    autoSubmitting => SendUnderWay

\* C25: at most one POST of sendResponse to /mock/respond is in flight at any time, whatever the
\* interleaving of the Generate button, Ctrl/Cmd+Enter and the automatic submit on a stop string;
\* while one sendResponse is under way (its POST, or the refresh that follows it) no other posts.
C25_OnePostInFlight ==
    /\ Len(sends) <= 1
    /\ sends # <<>> => (autoSubmitting /\ \A k \in 1..Len(ticks) : ticks[k].owner # "send")
    /\ Cardinality({k \in 1..Len(ticks) : ticks[k].owner = "send"}) <= 1

C25_Witness ==
    /\ Len(sends) = 1 /\ selected = sends[1].request_id /\ Visible
    /\ editor # sends[1].content /\ FinalText(editor, selectedData) # <<>>

\* The stop strings of a request, as a set.
StopStrings(data) ==
    IF data.kind = "list" THEN {data.list[k] : k \in 1..Len(data.list)}
    ELSE IF data.kind = "string" THEN {data.str} ELSE {}

Occurs(text, s, i) == i + Len(s) <= Len(text) /\ SubSeq(text, i + 1, i + Len(s)) = s

OccursIn(text, s) == \E i \in 0..Len(text) : Occurs(text, s, i)

\* The positions of text where some string of ss occurs.
Cuts(text, ss) == {i \in 0..Len(text) : \E s \in ss : Occurs(text, s, i)}

\* text cut at the earliest occurrence of a string of ss.
CutAt(text, ss) ==
    IF Cuts(text, ss) = {} THEN text
    ELSE SubSeq(text, 1, CHOOSE i \in Cuts(text, ss) : \A j \in Cuts(text, ss) : i <= j)

\* A step in which a handler ran sendResponse on the text in typed' gave ss as the stop strings.
PostedCut(ss) ==
    (Len(sends') > Len(sends)) =>
        LET content == sends'[Len(sends')].content
        IN  /\ content # <<>>
            /\ content = CutAt(typed', ss)
            /\ \A s \in ss : ~OccursIn(content, s)

\* C26: for every editor text and every stop value (one string or a list of strings), the content
\* sendResponse posts is not empty and is the editor text cut at the earliest first occurrence of
\* any stop string, so it contains no stop string; when the cut text is empty nothing is posted.
C26_PostIsCutAtEarliestStop ==
    [][PostedCut(StopStrings(selectedData))]_vars

\* C26 as the code has it: a stop that is one empty string, like an absent stop, is no stop at all
\* (the text is posted whole); the stop strings are the non-empty single string or the members of
\* the list.  With these stop strings the posted content is not empty, is the editor text cut at
\* the earliest first occurrence of any of them and contains none; an empty cut text is not posted.
C26_PostIsCutAtEarliestTruthyStop ==
    [][PostedCut(IF HasStop(selectedData) THEN StopStrings(selectedData) ELSE {})]_vars

C26_Witness ==
    /\ sends # <<>> /\ selectedData.kind = "list" /\ Len(selectedData.list) = 2
    /\ Len(typed) = MaxLen /\ sends[1].content = SubSeq(typed, 1, 1)
    /\ Cardinality(Cuts(typed, StopStrings(selectedData))) >= 2

\* The result of tick() for the list it drew.
TickRule(list) ==
    IF selected # "null" /\ \E k \in 1..Len(list) : list[k].request_id = selected /\ ~list[k].completed
    THEN selected' = selected /\ selectedData' = selectedData /\ editor' = editor
    ELSE IF \E k \in 1..Len(list) : ~list[k].completed
    THEN LET first == CHOOSE k \in 1..Len(list) :
                         ~list[k].completed /\ \A j \in 1..Len(list) : ~list[j].completed => k <= j
         IN  selected' = list[first].request_id
    ELSE selected' = selected /\ selectedData' = selectedData

\* C27: when tick() completes with a pending list: if the selected request is in the list and
\* not completed, the selection and the editor's content stay as they are; otherwise, if the list
\* holds an uncompleted request, the first uncompleted request of the list becomes the selected
\* one; otherwise the selection stays as it is.
C27_TickSelectionRule ==
    [][TickDone(MockStops) => TickRule(pendingList')]_vars

C27_Witness ==
    /\ Len(pendingList) = 2 /\ pendingList[1].completed /\ ~pendingList[2].completed
    /\ selected = pendingList[2].request_id /\ Visible /\ ticks = <<>>

\* C28: when tick() calls overlap (the 1500 ms interval, the refresh after a send or a clear, the
\* delayed follow-ups), the list and the selection left once all have completed come from the
\* fetch issued last: the answer of an older fetch never overwrites that of a newer one.
C28_NewestFetchWins ==
    ticks = <<>> => ~shownStale

----------------------------------------------------------------------------
(* The log viewer: claims.                                                 *)

\* C29: under every interleaving of UID tab clicks, the All tab, the Clear button and the
\* arrival of /iids answers, selectedIid is non-empty only while selectedUid is non-empty, and
\* the IID tabs on display were loaded for the UID that is selected now.
C29_IidTabsFollowSelectedUid ==
    /\ selectedIid # "" => selectedUid # ""
    /\ iidTabs # "" => iidTabs = selectedUid

Quiet == loader = At("poll", "idle", "") /\ clearer = NoClear

\* C30: whenever the server's /version differs from the version the view was last drawn for, the
\* view is reloaded once requests succeed: a reload that failed part-way is tried again on a later
\* poll, and a change of version during the initial load is not missed.  So whenever the poll is
\* at rest with lastVersion equal to the server's version, no part of the view is out of date.
C30_StaleViewIsReloaded ==
    (Quiet /\ lastVersion = serverVersion) => stale = {}

FilterStates == {"off", "include", "exclude"}

Listed == {t \in Types : typeStates[t] # "absent"}

\* A step of the tile click handler: no reload moves, and some type's state changes.
TileStep == loader' = loader /\ clearer' = clearer /\ typeStates' # typeStates

\* C31: each click on a type tile moves that type's state along the cycle off, include, exclude,
\* off and leaves every other type's state as it is; every type's state is always one of the three
\* values; three clicks in a row on the same tile restore its state.
C31_TileClickCycles ==
    [][ /\ \A t \in Types : typeStates'[t] \in FilterStates \cup {"absent"}
        /\ TileStep =>
              \E t \in Listed :
                 /\ <<typeStates[t], typeStates'[t]>> \in
                       {<<"off", "include">>, <<"include", "exclude">>, <<"exclude", "off">>}
                 /\ \A u \in Types \ {t} : typeStates'[u] = typeStates[u]
                 /\ nextState(nextState(typeStates'[t])) = typeStates[t]
      ]_vars

C31_Witness ==
    /\ typeStates["t1"] = "exclude" /\ typeStates["t2"] = "include"
    /\ stored = saveTypeStates(typeStates)

\* A step in which loadTypes rebuilt the filter states from what was saved.
LoadStep == loader.at = "types" /\ loader'.at = "uids"

\* C32: saving the filter states and loading them for the same list of types restores the same
\* state for every type (include and exclude are kept, every other type is off), so a periodic
\* reload never changes the filter states the user has set.
C32_ReloadKeepsFilterStates ==
    [][LoadStep => \A t \in Listed : typeStates'[t] = typeStates[t]]_vars

====
